---- MODULE Spec2Model ----
(***************************************************************************)
(* Tool-call extraction of vllm/entrypoints/openai/tool_parsers:           *)
(*   deepseek_r1.py              tag-delimited grammar  (DeepSeekR1)        *)
(*   phi4_reasoning_tool_parser.py  implicit-JSON grammar (Phi4Reasoning)   *)
(*                                                                         *)
(* Text is a sequence of lexemes.  Each lexeme stands for one fixed piece  *)
(* of model output:                                                        *)
(*   "B"  the begin marker  (calls_begin = call_begin)                     *)
(*   "E"  the end marker    (calls_end = call_end)                         *)
(*   "x"  one character of prose                                           *)
(*   "s"  one whitespace character                                         *)
(*   "OF" {"name":"f"        "OG" {"name":"g"                              *)
(*   "OE" {"name":""         (the empty name)                              *)
(*   "PK" ,"parameters":     "AK" ,"arguments":                            *)
(*   "1"  the number 1       "2"  the number 2                             *)
(*   "LB" {                  "RB" }                                        *)
(* The regular expressions and the JSON decoder are modelled by what they  *)
(* do on these pieces.                                                     *)
(***************************************************************************)
EXTENDS Integers, Sequences, FiniteSets, TLC

VARIABLES
  parser,      \* the tool parser of the session
  plan,        \* the pieces the model output is made of (names of Segment)
  text,        \* the model output
  pos,         \* streaming: the length of current_text
  ret,         \* streaming: what the last step returned
  calls,       \* streaming: the call events returned so far, in order
  contentOut,  \* streaming: the content returned so far, concatenated
  nextId,      \* the number of ids random_tool_call_id has handed out
  result,      \* non-streaming: <<>> or <<the value returned>>
  fault        \* non-streaming: an exception escaped the body of the call

vars == <<parser, plan, text, pos, ret, calls, contentOut, nextId, result, fault>>

Parsers == {"deepseek_r1", "phi4_reasoning"}

(***************************************************************************)
(* Strings                                                                 *)
(***************************************************************************)
IsSpace(t) == t = "s"

\* str.strip(): whitespace removed at both ends
RECURSIVE LStrip(_)
LStrip(s) == IF s # <<>> /\ IsSpace(Head(s)) THEN LStrip(Tail(s)) ELSE s

RECURSIVE RStrip(_)
RStrip(s) ==
  IF s # <<>> /\ IsSpace(s[Len(s)]) THEN RStrip(SubSeq(s, 1, Len(s) - 1)) ELSE s

Strip(s) == RStrip(LStrip(s))

\* sub occurs in s at index i
OccursAt(s, sub, i) ==
  /\ i >= 1
  /\ i + Len(sub) - 1 <= Len(s)
  /\ SubSeq(s, i, i + Len(sub) - 1) = sub

\* s.split(sub)[0] and s.split(sub, 1)[0]: the text before the first
\* occurrence of sub, the whole of s when sub does not occur
SplitFirst(s, sub) ==
  LET hits == {i \in 1..Len(s) : OccursAt(s, sub, i)}
  IN  IF hits = {} THEN s
      ELSE SubSeq(s, 1, (CHOOSE i \in hits : \A j \in hits : i <= j) - 1)

\* the index of the first lexeme of s, at or after i, that is in set T;
\* Len(s) + 1 when there is none
RECURSIVE FirstIn(_, _, _)
FirstIn(s, i, T) ==
  IF i > Len(s) THEN Len(s) + 1
  ELSE IF s[i] \in T THEN i
  ELSE FirstIn(s, i + 1, T)

\* \s* : the index after the whitespace that starts at i
RECURSIVE SkipWs(_, _)
SkipWs(s, i) ==
  IF i <= Len(s) /\ IsSpace(s[i]) THEN SkipWs(s, i + 1) ELSE i

(***************************************************************************)
(* json.loads / json.dumps                                                 *)
(* A decoded value is a record: an int, a str, or a dict whose items are   *)
(* kept in insertion order (a later duplicate key overwrites the value).   *)
(***************************************************************************)
PyInt(n)  == [t |-> "int",  n |-> n, s |-> "",  items |-> <<>>]
PyStr(c)  == [t |-> "str",  n |-> 0, s |-> c,   items |-> <<>>]
PyDict(i) == [t |-> "dict", n |-> 0, s |-> "",  items |-> i]

NumberOf(tok) == IF tok = "1" THEN 1 ELSE 2
NameOf(tok)   == IF tok = "OF" THEN "f" ELSE IF tok = "OG" THEN "g" ELSE ""
KeyOf(tok)    == IF tok = "PK" THEN "parameters" ELSE "arguments"

HasKey(items, k) == \E i \in 1..Len(items) : items[i].key = k

\* dict[k] = v
Put(items, k, v) ==
  IF HasKey(items, k)
  THEN [i \in 1..Len(items) |->
          IF items[i].key = k THEN [key |-> k, val |-> v] ELSE items[i]]
  ELSE Append(items, [key |-> k, val |-> v])

ParseFail == [ok |-> FALSE, val |-> PyInt(0), next |-> 0]

RECURSIVE ParseValue(_, _)
RECURSIVE ParseMembers(_, _, _)

\* one JSON value starting at index i of s
ParseValue(s, i) ==
  IF i > Len(s) THEN ParseFail
  ELSE IF s[i] \in {"1", "2"}
    THEN [ok |-> TRUE, val |-> PyInt(NumberOf(s[i])), next |-> i + 1]
  ELSE IF s[i] = "LB"
    THEN LET j == SkipWs(s, i + 1)
         IN  IF j <= Len(s) /\ s[j] = "RB"
             THEN [ok |-> TRUE, val |-> PyDict(<<>>), next |-> j + 1]
             ELSE ParseFail
  ELSE IF s[i] \in {"OF", "OG", "OE"}
    THEN ParseMembers(s, SkipWs(s, i + 1),
                      <<[key |-> "name", val |-> PyStr(NameOf(s[i]))]>>)
  ELSE ParseFail

\* the members of an object after its name member, up to its closing brace
ParseMembers(s, i, items) ==
  IF i > Len(s) THEN ParseFail
  ELSE IF s[i] = "RB"
    THEN [ok |-> TRUE, val |-> PyDict(items), next |-> i + 1]
  ELSE IF s[i] \in {"PK", "AK"}
    THEN LET v == ParseValue(s, SkipWs(s, i + 1))
         IN  IF v.ok
             THEN ParseMembers(s, SkipWs(s, v.next), Put(items, KeyOf(s[i]), v.val))
             ELSE ParseFail
  ELSE ParseFail

\* json.loads(s): [ok, val]; ok = FALSE stands for JSONDecodeError
JsonLoads(s) ==
  LET r == ParseValue(s, SkipWs(s, 1))
  IN  IF r.ok /\ SkipWs(s, r.next) > Len(s)
      THEN [ok |-> TRUE, val |-> r.val]
      ELSE [ok |-> FALSE, val |-> PyInt(0)]

\* obj[k] does not raise (obj is a dict that has the key)
CanSubscript(obj, k) == obj.t = "dict" /\ HasKey(obj.items, k)

\* obj[k]
Subscript(obj, k) ==
  obj.items[CHOOSE i \in 1..Len(obj.items) : obj.items[i].key = k].val

RECURSIVE Dumps(_)
RECURSIVE DumpItems(_, _)

\* json.dumps(v, ensure_ascii=False): the pieces of the output text, with
\* the separators ", " and ": " json.dumps writes
Dumps(v) ==
  IF v.t = "int" THEN <<IF v.n = 1 THEN "1" ELSE "2">>
  ELSE IF v.t = "str" THEN <<"\"", v.s, "\"">>
  ELSE <<"{">> \o DumpItems(v.items, 1) \o <<"}">>

DumpItems(items, i) ==
  IF i > Len(items) THEN <<>>
  ELSE (IF i > 1 THEN <<", ">> ELSE <<>>)
       \o <<"\"", items[i].key, "\"", ": ">>
       \o Dumps(items[i].val)
       \o DumpItems(items, i + 1)

(***************************************************************************)
(* The patterns                                                            *)
(***************************************************************************)
\* variant: begin (.*) end, greedy: one match, from the first begin marker at
\* or after index i to the last end marker
BlockMatchesGreedy(s, i) ==
  LET b    == FirstIn(s, i, {"B"})
      ends == {e \in (b + 1)..Len(s) : s[e] = "E"}
      last == CHOOSE e \in ends : \A f \in ends : f <= e
  IN  IF b > Len(s) \/ ends = {} THEN <<>>
      ELSE <<[start |-> b, end |-> last, group |-> SubSeq(s, b + 1, last - 1)]>>

RECURSIVE BlockMatches(_, _)

\* tool_call_block_re = begin (.*?) end, DOTALL: the matches at or after
\* index i, left to right, not overlapping.  A match runs from the first
\* begin marker to the first end marker after it; group is group(1).
BlockMatches(s, i) ==
  LET b == FirstIn(s, i, {"B"})
      e == FirstIn(s, b + 1, {"E"})
  IN  IF b > Len(s) \/ e > Len(s) THEN <<>>
      ELSE <<[start |-> b, end |-> e, group |-> SubSeq(s, b + 1, e - 1)]>>
           \o BlockMatches(s, e + 1)

\* tool_call_block_re.finditer(s) / findall(s)
tool_call_block_re(s) == BlockMatches(s, 1)

\* ".*?" \s* , \s* "arguments" \s* : -- the index of the arguments key that
\* ends the lazily extended name part: the first closing quote at or after
\* index q that is followed by the key (Len(s) + 1: none)
RECURSIVE ArgumentsKeyAfter(_, _)
ArgumentsKeyAfter(s, q) ==
  LET o == FirstIn(s, q, {"OF", "OG", "OE"})
      a == SkipWs(s, o + 1)
  IN  IF o > Len(s) THEN Len(s) + 1
      ELSE IF a <= Len(s) /\ s[a] = "AK" THEN a
      ELSE ArgumentsKeyAfter(s, o + 1)

RECURSIVE ObjectMatches(_, _)

\* TOOL_CALL_REGEX, DOTALL: the matches at or after index i.  A match
\* starts at an opening brace followed by the name key, and ends at the
\* first closing brace after the arguments key.
ObjectMatches(s, i) ==
  LET p == FirstIn(s, i, {"OF", "OG", "OE"})
      a == ArgumentsKeyAfter(s, p)
      r == FirstIn(s, a + 1, {"RB"})
  IN  IF p > Len(s) THEN <<>>
      ELSE IF a > Len(s) \/ r > Len(s) THEN ObjectMatches(s, p + 1)
      ELSE <<[start |-> p, end |-> r, group |-> SubSeq(s, p, r)]>>
           \o ObjectMatches(s, r + 1)

\* TOOL_CALL_REGEX.findall(s)
TOOL_CALL_REGEX(s) == ObjectMatches(s, 1)

(***************************************************************************)
(* Building a call from a candidate block                                  *)
(***************************************************************************)
NoCall == [ok |-> FALSE, name |-> "", arguments |-> <<>>]

\* json.loads(s), then name = obj["name"], arguments = json.dumps(obj[key]);
\* ok = FALSE when any of these raises (the name must be a str)
DecodeCall(s, key) ==
  LET j == JsonLoads(s)
  IN  IF /\ j.ok
         /\ CanSubscript(j.val, "name")
         /\ CanSubscript(j.val, key)
         /\ Subscript(j.val, "name").t = "str"
      THEN [ok |-> TRUE, name |-> Subscript(j.val, "name").s,
            arguments |-> Dumps(Subscript(j.val, key))]
      ELSE NoCall

DeepSeekArgumentsKey == "parameters"
Phi4ArgumentsKey == "arguments"

\* the body of the loop of DeepSeekR1ToolParser.extract_tool_calls for one
\* match: empty after strip, or undecodable, gives no call
DeepSeekCall(match) ==
  LET json_str == Strip(match)
  IN  IF json_str = <<>> THEN NoCall ELSE DecodeCall(json_str, DeepSeekArgumentsKey)

\* the body of the loop of Phi4ReasoningToolParser.extract_tool_calls
Phi4Call(match) == DecodeCall(match, Phi4ArgumentsKey)

ToolCall(c) == [name |-> c.name, arguments |-> c.arguments]

RECURSIVE DeepSeekToolCallsBreak(_, _)
\* variant: the loop stops at the first span that gives no call
DeepSeekToolCallsBreak(matches, i) ==
  IF i > Len(matches) THEN <<>>
  ELSE LET c == DeepSeekCall(matches[i].group)
       IN  IF c.ok THEN <<ToolCall(c)>> \o DeepSeekToolCallsBreak(matches, i + 1)
           ELSE <<>>

RECURSIVE DeepSeekToolCalls(_, _)
\* tool_calls after the loop over the matches from index i on
DeepSeekToolCalls(matches, i) ==
  IF i > Len(matches) THEN <<>>
  ELSE LET c == DeepSeekCall(matches[i].group)
       IN  (IF c.ok THEN <<ToolCall(c)>> ELSE <<>>)
           \o DeepSeekToolCalls(matches, i + 1)

RECURSIVE Phi4ToolCalls(_, _)
Phi4ToolCalls(matches, i) ==
  IF i > Len(matches) THEN <<>>
  ELSE LET c == Phi4Call(matches[i].group)
       IN  (IF c.ok THEN <<ToolCall(c)>> ELSE <<>>)
           \o Phi4ToolCalls(matches, i + 1)

(***************************************************************************)
(* extract_tool_calls                                                      *)
(***************************************************************************)
None == [none |-> TRUE, text |-> <<>>]
Some(s) == [none |-> FALSE, text |-> s]

\* variant: the text is returned trimmed
NoToolCallsStripped(model_output) ==
  [tools_called |-> FALSE, tool_calls |-> <<>>,
   content |-> Some(Strip(model_output))]

\* ExtractedToolCallInformation(tools_called=False, tool_calls=[],
\*                              content=model_output)
NoToolCalls(model_output) ==
  [tools_called |-> FALSE, tool_calls |-> <<>>, content |-> Some(model_output)]

\* variant: an empty content is returned as the empty string
DeepSeekResultKeepEmpty(tool_calls, content) ==
  [tools_called |-> tool_calls # <<>>,
   tool_calls   |-> tool_calls,
   content      |-> Some(content)]

\* variant: tools_called reports that the begin marker was seen
DeepSeekResultMarkerSeen(tool_calls, content) ==
  [tools_called |-> TRUE,
   tool_calls   |-> tool_calls,
   content      |-> IF content # <<>> THEN Some(content) ELSE None]

\* the return of the normal path of DeepSeekR1ToolParser.extract_tool_calls
DeepSeekResult(tool_calls, content) ==
  [tools_called |-> tool_calls # <<>>,
   tool_calls   |-> tool_calls,
   content      |-> IF content # <<>> THEN Some(content) ELSE None]

\* DeepSeekR1ToolParser.extract_tool_calls; raised = an exception escapes the
\* body of the outer try
DeepSeekExtract(model_output, raised) ==
  IF \A i \in 1..Len(model_output) : model_output[i] # "B"
  THEN NoToolCalls(model_output)
  ELSE IF raised THEN NoToolCalls(model_output)
  ELSE DeepSeekResult(
         DeepSeekToolCalls(tool_call_block_re(model_output), 1),
         Strip(SplitFirst(model_output, <<"B">>)))

\* variant: the content before the first match is returned whether or not
\* a call was decoded
Phi4ResultContent(tool_calls, content, model_output) ==
  [tools_called |-> tool_calls # <<>>,
   tool_calls   |-> tool_calls,
   content      |-> Some(content)]

\* the return of Phi4ReasoningToolParser.extract_tool_calls
Phi4Result(tool_calls, content, model_output) ==
  [tools_called |-> tool_calls # <<>>,
   tool_calls   |-> tool_calls,
   content      |-> IF tool_calls # <<>> THEN Some(content) ELSE Some(model_output)]

\* Phi4ReasoningToolParser.extract_tool_calls
Phi4Extract(model_output) ==
  LET matches == TOOL_CALL_REGEX(model_output)
      content == IF matches # <<>>
                 THEN Strip(SplitFirst(model_output, matches[1].group))
                 ELSE model_output
  IN  Phi4Result(Phi4ToolCalls(matches, 1), content, model_output)

\* variant: a step with nothing to emit returns an empty content event
NoDeltaEmptyContent ==
  [kind |-> "content", content |-> <<>>, index |-> 0, id |-> <<>>,
   name |-> "", arguments |-> <<>>]

(***************************************************************************)
(* extract_tool_calls_streaming                                            *)
(***************************************************************************)
NoDelta ==
  [kind |-> "none", content |-> <<>>, index |-> 0, id |-> <<>>,
   name |-> "", arguments |-> <<>>]

\* variant: the fragment is passed on trimmed
ContentDeltaStripped(delta_text) ==
  [kind |-> "content", content |-> Strip(delta_text), index |-> 0, id |-> <<>>,
   name |-> "", arguments |-> <<>>]

\* DeltaMessage(content=delta_text)
ContentDelta(delta_text) ==
  [kind |-> "content", content |-> delta_text, index |-> 0, id |-> <<>>,
   name |-> "", arguments |-> <<>>]

\* DeltaMessage(tool_calls=[DeltaToolCall(index, id, function)])
CallDelta(index, id, c) ==
  [kind |-> "call", content |-> <<>>, index |-> index, id |-> id,
   name |-> c.name, arguments |-> c.arguments]

\* random_tool_call_id() when n ids were handed out before
random_tool_call_id(n) == <<"chatcmpl-tool", n + 1>>

\* variant: the step runs its pattern on delta_text
StreamScannedDelta(current_text, delta_text) == delta_text

\* the text the streaming step runs its pattern on
StreamScanned(current_text, delta_text) == current_text

\* matches[-1]
LastMatch(matches) == matches[Len(matches)]

\* DeltaToolCall(index=...) of DeepSeekR1ToolParser
DeepSeekIndex(matches) == 0

\* DeltaToolCall(index=...) of Phi4ReasoningToolParser
Phi4Index(matches) == Len(matches) - 1

\* DeltaToolCall(id=...) of DeepSeekR1ToolParser
DeepSeekId(n) == random_tool_call_id(n)

\* DeltaToolCall(id=...) of Phi4ReasoningToolParser
Phi4Id(n) == <<"phi4_tool_call_stream">>

\* DeepSeekR1ToolParser.extract_tool_calls_streaming with n ids handed out
\* before: msg is the value returned, drawn the ids taken from the
\* generator (the id is taken after json.loads and before the fields are
\* read), span and nspans the match the step decoded and the number of
\* matches it found
DeepSeekStreaming(current_text, delta_text, n) ==
  LET matches  == tool_call_block_re(StreamScanned(current_text, delta_text))
      json_str == Strip(LastMatch(matches).group)
      c        == DecodeCall(json_str, DeepSeekArgumentsKey)
      at       == [span |-> LastMatch(matches).start, nspans |-> Len(matches)]
  IN  IF matches = <<>>
      THEN [msg |-> ContentDelta(delta_text), drawn |-> 0, span |-> 0, nspans |-> 0]
      ELSE IF json_str = <<>> \/ ~JsonLoads(json_str).ok
      THEN [msg |-> NoDelta, drawn |-> 0] @@ at
      ELSE IF ~c.ok
      THEN [msg |-> NoDelta, drawn |-> 1] @@ at
      ELSE [msg |-> CallDelta(DeepSeekIndex(matches), DeepSeekId(n), c),
            drawn |-> 1] @@ at

\* Phi4ReasoningToolParser.extract_tool_calls_streaming
Phi4Streaming(current_text, delta_text, n) ==
  LET matches == TOOL_CALL_REGEX(StreamScanned(current_text, delta_text))
      c       == DecodeCall(LastMatch(matches).group, Phi4ArgumentsKey)
      at      == [span |-> LastMatch(matches).start, nspans |-> Len(matches)]
  IN  IF matches = <<>>
      THEN [msg |-> ContentDelta(delta_text), drawn |-> 0, span |-> 0, nspans |-> 0]
      ELSE IF ~c.ok
      THEN [msg |-> NoDelta, drawn |-> 0] @@ at
      ELSE [msg |-> CallDelta(Phi4Index(matches), Phi4Id(n), c), drawn |-> 0] @@ at

Streaming(p, current_text, delta_text, n) ==
  IF p = "deepseek_r1"
  THEN DeepSeekStreaming(current_text, delta_text, n)
  ELSE Phi4Streaming(current_text, delta_text, n)

(***************************************************************************)
(* Model outputs                                                           *)
(***************************************************************************)
MaxSegs == 3        \* pieces of a model output, non-streaming
MaxStreamSegs == 2  \* pieces of a model output, streaming session

\* the pieces model outputs are made of
Segment(name) ==
  CASE name = "prose"     -> <<"x">>
    [] name = "space"     -> <<"s">>
    [] name = "begin"     -> <<"B">>
    [] name = "end"       -> <<"E">>
    \* tag-delimited blocks
    [] name = "callF1"    -> <<"B", "OF", "PK", "1", "RB", "E">>
    [] name = "callG2"    -> <<"B", "s", "OG", "PK", "2", "RB", "E">>
    [] name = "callFobj"  -> <<"B", "OF", "PK", "LB", "RB", "RB", "E">>
    [] name = "empty"     -> <<"B", "E">>
    [] name = "blank"     -> <<"B", "s", "E">>
    [] name = "notjson"   -> <<"B", "OF", "PK", "E">>
    [] name = "noparams"  -> <<"B", "OF", "RB", "E">>
    [] name = "argskey"   -> <<"B", "OF", "AK", "1", "RB", "E">>
    \* implicit-JSON blocks
    [] name = "objF1"     -> <<"OF", "AK", "1", "RB">>
    [] name = "objG2"     -> <<"OG", "s", "AK", "2", "RB">>
    [] name = "objFobj"   -> <<"OF", "AK", "LB", "RB", "RB">>
    [] name = "objnoargs" -> <<"OF", "RB">>
    [] name = "objparams" -> <<"OF", "PK", "1", "RB">>
    \* blocks that name no function
    [] name = "callE1"    -> <<"B", "OE", "PK", "1", "RB", "E">>
    [] name = "objE1"     -> <<"OE", "AK", "1", "RB">>

Free == {"prose", "space"}
DeepSeekBlocks ==
  {"callF1", "callG2", "callFobj", "empty", "blank", "notjson", "noparams",
   "argskey"}
Phi4Blocks == {"objF1", "objG2", "objFobj", "objnoargs", "objparams"}
Unnamed(p) == IF p = "deepseek_r1" THEN {"callE1"} ELSE {"objE1"}

\* the pieces of a non-streaming input
ExtractSegs(p) ==
  IF p = "deepseek_r1"
  THEN Free \cup DeepSeekBlocks \cup {"begin", "end"} \cup Unnamed(p)
  ELSE Free \cup Phi4Blocks \cup Unnamed(p)

\* the pieces of a streamed output
StreamSegs(p) ==
  IF p = "deepseek_r1" THEN {"prose", "callF1", "callG2", "blank", "noparams"}
  ELSE {"prose", "objF1", "objG2", "objFobj", "objnoargs"}

RECURSIVE Plans(_, _)
\* the sequences of at most n pieces of S
Plans(S, n) ==
  IF n = 0 THEN {<<>>}
  ELSE LET shorter == Plans(S, n - 1)
       IN  shorter \cup {Append(q, name) : q \in shorter, name \in S}

RECURSIVE Flatten(_)
Flatten(q) == IF q = <<>> THEN <<>> ELSE Segment(Head(q)) \o Flatten(Tail(q))

(***************************************************************************)
(* A streaming session: the caller appends delta_text to current_text and  *)
(* calls extract_tool_calls_streaming, until the output is complete.       *)
(***************************************************************************)
\* a streamed output: at most one character of leading prose, then at most
\* MaxStreamSegs pieces
StreamPlans(p) ==
  {lead \o q : lead \in {<<>>, <<"prose">>},
               q \in Plans(StreamSegs(p), MaxStreamSegs)}

Init ==
  /\ parser \in Parsers
  /\ plan \in StreamPlans(parser)
  /\ text = Flatten(plan)
  /\ pos = 0
  /\ ret = NoDelta
  /\ calls = <<>>
  /\ contentOut = <<>>
  /\ nextId = 0
  /\ result = <<>>
  /\ fault = FALSE

\* one step of the session, delta_text being the next n lexemes
StreamStep(p, n) ==
  /\ parser = p
  /\ pos + n <= Len(text)
  /\ LET current_text == SubSeq(text, 1, pos + n)
         delta_text   == SubSeq(text, pos + 1, pos + n)
         r            == Streaming(p, current_text, delta_text, nextId)
     IN  /\ pos' = pos + n
         /\ ret' = r.msg
         /\ calls' = IF r.msg.kind = "call"
                     THEN Append(calls, [msg |-> r.msg, span |-> r.span,
                                         nspans |-> r.nspans])
                     ELSE calls
         /\ contentOut' = IF r.msg.kind = "content"
                          THEN contentOut \o r.msg.content
                          ELSE contentOut
         /\ nextId' = nextId + r.drawn
  /\ UNCHANGED <<parser, plan, text, result, fault>>

DeepSeekStreamStep == \E n \in 1..(Len(text) - pos) : StreamStep("deepseek_r1", n)

Phi4StreamStep == \E n \in 1..(Len(text) - pos) : StreamStep("phi4_reasoning", n)

Next == DeepSeekStreamStep \/ Phi4StreamStep

Spec == Init /\ [][Next]_vars

(***************************************************************************)
(* A non-streaming request: extract_tool_calls on the whole model output   *)
(***************************************************************************)
InitExtract ==
  /\ parser \in Parsers
  /\ plan \in Plans(ExtractSegs(parser), MaxSegs)
  /\ text = Flatten(plan)
  /\ pos = 0
  /\ ret = NoDelta
  /\ calls = <<>>
  /\ contentOut = <<>>
  /\ nextId = 0
  /\ result = <<>>
  /\ fault = FALSE

DeepSeekExtractCall ==
  /\ parser = "deepseek_r1"
  /\ result = <<>>
  /\ \E raised \in BOOLEAN :
       /\ fault' = raised
       /\ result' = <<DeepSeekExtract(text, raised)>>
  /\ UNCHANGED <<parser, plan, text, pos, ret, calls, contentOut, nextId>>

Phi4ExtractCall ==
  /\ parser = "phi4_reasoning"
  /\ result = <<>>
  /\ result' = <<Phi4Extract(text)>>
  /\ UNCHANGED <<parser, plan, text, pos, ret, calls, contentOut, nextId, fault>>

NextExtract == DeepSeekExtractCall \/ Phi4ExtractCall

SpecExtract == InitExtract /\ [][NextExtract]_vars

(***************************************************************************)
(* Streaming sessions (Spec)                                               *)
(***************************************************************************)
Record(m) == [name |-> m.name, arguments |-> m.arguments]

\* the call records of the session's events
EmittedRecords == {Record(calls[i].msg) : i \in 1..Len(calls)}

\* the call records of the session that streams the same output one lexeme
\* per step.  (A step that ends inside a lexeme finds the matches of the
\* step before it, so one character per step emits the same records.)
StepwiseRecords ==
  LET step(k) == Streaming(parser, SubSeq(text, 1, k), <<text[k]>>, 0).msg
  IN  {Record(step(k)) : k \in {j \in 1..Len(text) : step(j).kind = "call"}}

\* C1: in a streaming session no candidate block is the subject of two call
\* events: a call emitted at an earlier step is not emitted again later.
C1_NoCallEmittedTwice ==
  \A i, j \in 1..Len(calls) : i # j => calls[i].span # calls[j].span

\* C2: when the whole output has been streamed, the set of call records
\* emitted is the one the one-lexeme-per-step session emits, whatever the
\* chunking was.
C2_ChunkingEquivalence ==
  pos = Len(text) => EmittedRecords = StepwiseRecords

\* C3: every call event carries the index (number of candidate spans found
\* in the current text) - 1.
C3_IndexIsOrdinal ==
  \A i \in 1..Len(calls) : calls[i].msg.index = calls[i].nspans - 1

\* C4: no two call events of a session carry the same correlation id.
C4_IdsAreFresh ==
  \A i, j \in 1..Len(calls) : i # j => calls[i].msg.id # calls[j].msg.id

\* C5: call events are emitted in the textual order of their spans: an
\* event's span never lies before the span of an earlier event.
C5_CallsInTextOrder ==
  \A i, j \in 1..Len(calls) : i < j => calls[i].span <= calls[j].span

\* a session that emitted call events for two different spans
C5_Witness ==
  \E i, j \in 1..Len(calls) : i < j /\ calls[i].span < calls[j].span

\* C6: two call events with the same index carry the same argument payload
\* (every span an event was decoded from is complete and does not change).
C6_SameIndexSamePayload ==
  \A i, j \in 1..Len(calls) :
    calls[i].msg.index = calls[j].msg.index
      => calls[i].msg.arguments = calls[j].msg.arguments

(***************************************************************************)
(* Non-streaming requests (SpecExtract)                                    *)
(***************************************************************************)
\* the blocks of each grammar that hold a name and the grammar's argument key
WellFormed(p) ==
  IF p = "deepseek_r1" THEN {"callF1", "callG2", "callFobj"}
  ELSE {"objF1", "objG2", "objFobj"}

\* the call a well-formed block was written to make
RecordOf(name) ==
  CASE name \in {"callF1", "objF1"}     -> [name |-> "f", arguments |-> <<"1">>]
    [] name \in {"callG2", "objG2"}     -> [name |-> "g", arguments |-> <<"2">>]
    [] name \in {"callFobj", "objFobj"} -> [name |-> "f", arguments |-> <<"{", "}">>]

RECURSIVE ExpectedCalls(_, _)
\* the calls of the well-formed blocks of plan q, left to right
ExpectedCalls(q, p) ==
  IF q = <<>> THEN <<>>
  ELSE (IF Head(q) \in WellFormed(p) THEN <<RecordOf(Head(q))>> ELSE <<>>)
       \o ExpectedCalls(Tail(q), p)

\* no begin marker (tag-delimited), no structural match (implicit JSON)
NoCandidate ==
  IF parser = "deepseek_r1" THEN \A i \in 1..Len(text) : text[i] # "B"
  ELSE TOOL_CALL_REGEX(text) = <<>>

\* C7: on a text with no begin marker / no structural match the result is
\* tools_called = False, no calls, and content = the input text, unmodified.
C7_NoSyntaxLeavesTextUntouched ==
  (result # <<>> /\ NoCandidate)
    => result[1] = [tools_called |-> FALSE, tool_calls |-> <<>>,
                    content |-> Some(text)]

\* such a result for a text that trimming would change
C7_Witness ==
  /\ result # <<>>
  /\ NoCandidate
  /\ Strip(text) # text
  /\ Strip(text) # <<>>
  /\ result[1].content = Some(text)

\* the output is free text and whole blocks, with no stray marker
TagBlocksOnly ==
  \A i \in 1..Len(plan) : plan[i] \in Free \cup DeepSeekBlocks

\* C8: tag-delimited extract skips an empty, undecodable or incomplete span
\* and returns exactly the calls of the well-formed spans, in order.
C8_BadSpansSkipped ==
  (parser = "deepseek_r1" /\ result # <<>> /\ ~fault /\ TagBlocksOnly)
    => result[1].tool_calls = ExpectedCalls(plan, parser)

\* a bad span between two well-formed ones, both of which were returned
C8_Witness ==
  /\ parser = "deepseek_r1" /\ result # <<>> /\ ~fault
  /\ Len(plan) = 3
  /\ plan[1] \in WellFormed(parser)
  /\ plan[2] \in DeepSeekBlocks \ WellFormed(parser)
  /\ plan[3] \in WellFormed(parser)
  /\ Len(result[1].tool_calls) = 2

\* leading content followed by k >= 1 well-formed blocks
ContentThenBlocks ==
  /\ plan # <<>>
  /\ plan[Len(plan)] \in WellFormed(parser)
  /\ \A i \in 1..Len(plan) : plan[i] \in Free \cup WellFormed(parser)
  /\ \A i, j \in 1..Len(plan) :
       (i < j /\ plan[i] \in WellFormed(parser)) => plan[j] \in WellFormed(parser)

\* C9: for leading content followed by k >= 1 well-formed blocks, extract
\* returns the k calls of the blocks in order, with tools_called = True.
C9_BlocksInOrder ==
  (result # <<>> /\ ~fault /\ ContentThenBlocks)
    => /\ result[1].tools_called
       /\ result[1].tool_calls = ExpectedCalls(plan, parser)

\* C10: in every result, tools_called is true iff tool_calls is not empty.
C10_CalledIffCalls ==
  result # <<>> => (result[1].tools_called <=> result[1].tool_calls # <<>>)

\* the begin marker is there and the normal path returned no call
C10_Witness ==
  /\ parser = "deepseek_r1" /\ result # <<>> /\ ~fault
  /\ ~NoCandidate
  /\ result[1].tool_calls = <<>>
  /\ ~result[1].tools_called

\* the text before the first candidate span: before the first begin marker
\* (tag-delimited), before the first structural match (implicit JSON)
BeforeFirstSpan ==
  IF parser = "deepseek_r1"
  THEN SubSeq(text, 1, FirstIn(text, 1, {"B"}) - 1)
  ELSE SubSeq(text, 1, TOOL_CALL_REGEX(text)[1].start - 1)

\* C11 (for results with calls): when calls were detected, the content is
\* None if the text before the first span is empty after trimming, and
\* that text trimmed otherwise; it is never an empty string.
C11_ContentNoneOrTrimmed ==
  (result # <<>> /\ result[1].tools_called)
    => result[1].content =
         (IF Strip(BeforeFirstSpan) = <<>> THEN None
          ELSE Some(Strip(BeforeFirstSpan)))

\* implicit-JSON blocks the pattern matches: those that decode, and the one
\* that does not (its match ends at the first closing brace)
Phi4Decodable == {"objF1", "objG2"}
Phi4Matched == Phi4Decodable \cup {"objFobj"}

RECURSIVE CallsOfBlocks(_, _)
\* the calls of the blocks of plan q that are in good, left to right
CallsOfBlocks(q, good) ==
  IF q = <<>> THEN <<>>
  ELSE (IF Head(q) \in good THEN <<RecordOf(Head(q))>> ELSE <<>>)
       \o CallsOfBlocks(Tail(q), good)

\* the output is free text and blocks the pattern matches
Phi4MatchedOnly ==
  /\ parser = "phi4_reasoning"
  /\ \A i \in 1..Len(plan) : plan[i] \in Free \cup Phi4Matched

\* C12: implicit-JSON extract decodes every match on its own: the calls
\* returned are those of the matches that decode, and when matches exist
\* but none decodes the result is tools_called = False, no calls, and
\* content = the full text.
C12_AllFailReturnsFullText ==
  (result # <<>> /\ Phi4MatchedOnly)
    => /\ result[1].tool_calls = CallsOfBlocks(plan, Phi4Decodable)
       /\ (CallsOfBlocks(plan, Phi4Decodable) = <<>>
             => result[1] = [tools_called |-> FALSE, tool_calls |-> <<>>,
                             content |-> Some(text)])

\* free text, then two matches neither of which decodes
C12_Witness ==
  /\ result # <<>> /\ Phi4MatchedOnly
  /\ Len(plan) = 3
  /\ plan[1] = "prose" /\ plan[2] = "objFobj" /\ plan[3] = "objFobj"
  /\ Len(TOOL_CALL_REGEX(text)) = 2
  /\ result[1].content = Some(text)

(***************************************************************************)
(* Streaming sessions (Spec), step by step                                 *)
(***************************************************************************)
\* the candidate spans of the first k lexemes of the output
SpansAt(k) ==
  IF parser = "deepseek_r1" THEN tool_call_block_re(SubSeq(text, 1, k))
  ELSE TOOL_CALL_REGEX(SubSeq(text, 1, k))

\* C13: a step whose current text holds no complete candidate span returns
\* a content event carrying exactly the fragment of that step, and no call
\* event.
C13_NoSpanPassesDelta ==
  [][SpansAt(pos') = <<>>
       => /\ ret' = [kind |-> "content", content |-> SubSeq(text, pos + 1, pos'),
                     index |-> 0, id |-> <<>>, name |-> "", arguments |-> <<>>]
          /\ calls' = calls
          /\ contentOut' = contentOut \o SubSeq(text, pos + 1, pos')]_vars

\* a content event whose fragment ends in whitespace
C13_Witness ==
  /\ pos > 0
  /\ SpansAt(pos) = <<>>
  /\ ret.kind = "content"
  /\ Len(ret.content) >= 2
  /\ ret.content[Len(ret.content)] = "s"

\* the span texts that decode to an object with a name and the arguments
\* field the extractor reads
GoodSpanTexts ==
  IF parser = "deepseek_r1"
  THEN {<<"OF", "PK", "1", "RB">>, <<"OG", "PK", "2", "RB">>,
        <<"OF", "PK", "LB", "RB", "RB">>}
  ELSE {<<"OF", "AK", "1", "RB">>, <<"OG", "s", "AK", "2", "RB">>}

\* the last candidate span of the first k lexemes is empty, undecodable or
\* lacks a field
LastSpanBad(k) ==
  /\ SpansAt(k) # <<>>
  /\ Strip(SpansAt(k)[Len(SpansAt(k))].group) \notin GoodSpanTexts

\* C14: a step whose last candidate span is empty, fails JSON decoding or
\* lacks a required field returns nothing: no content event, no call event;
\* the session goes on (the next step is enabled as before).
C14_BadLastSpanEmitsNothing ==
  [][LastSpanBad(pos')
       => /\ ret'.kind = "none"
          /\ calls' = calls
          /\ contentOut' = contentOut]_vars

\* a step that returned nothing for a bad last span, after an earlier step of
\* the session had emitted a call
C14_Witness ==
  /\ pos > 0
  /\ LastSpanBad(pos)
  /\ ret.kind = "none"
  /\ calls # <<>>

(***************************************************************************)
(* Call records                                                            *)
(***************************************************************************)
\* C15: every call record of a non-streaming result has a non-empty name
\* (a block whose name is the empty string yields no record).
C15_NamesNonEmpty ==
  result # <<>>
    => \A i \in 1..Len(result[1].tool_calls) : result[1].tool_calls[i].name # ""

\* a model output that is one block with a name and the number 1 under the
\* key "parameters" or under the key "arguments"
EitherKeyBlock ==
  /\ Len(plan) = 1
  /\ plan[1] \in (IF parser = "deepseek_r1" THEN {"callF1", "argskey"}
                  ELSE {"objparams", "objF1"})

\* C16: a block with a name and a "parameters" or an "arguments" field
\* yields a call record with the serialization of that field, under either
\* extractor.
C16_EitherKeyAccepted ==
  (result # <<>> /\ ~fault /\ EitherKeyBlock)
    => result[1].tool_calls = <<[name |-> "f", arguments |-> <<"1">>]>>

(***************************************************************************)
(* The span list over the steps of a session                               *)
(***************************************************************************)
\* C17: the list of candidate spans of a step extends the list of the step
\* before it: no fewer spans, and every earlier span at the same place with
\* the same text.
C17_SpanListOnlyGrows ==
  [][/\ Len(SpansAt(pos)) <= Len(SpansAt(pos'))
     /\ \A i \in 1..Len(SpansAt(pos)) : SpansAt(pos')[i] = SpansAt(pos)[i]]_vars

\* an earlier step found one span, the current text has two
C17_Witness ==
  /\ Len(SpansAt(pos)) = 2
  /\ \E i \in 1..Len(calls) : calls[i].nspans = 1

\* C18: once a step has found a candidate span, no later step returns a
\* content event: every later step returns a call event or nothing, and the
\* content passed through so far stays as it is.
C18_NoContentAfterFirstSpan ==
  [][SpansAt(pos) # <<>>
       => /\ ret'.kind \in {"call", "none"}
          /\ contentOut' = contentOut]_vars

\* free text arrived after the only block, in a step of its own, and the step
\* returned the block's call again
C18_Witness ==
  /\ pos > 0
  /\ pos = Len(text)
  /\ text[pos] = "x"
  /\ Len(SpansAt(pos)) = 1
  /\ SpansAt(pos)[1].end < pos
  /\ Len(calls) >= 2
  /\ ret.kind = "call"

\* the text before the first begin marker
BeforeFirstBegin == SubSeq(text, 1, FirstIn(text, 1, {"B"}) - 1)

\* C19: in a tag-delimited session the content passed through, concatenated,
\* is a prefix of the text before the first begin marker: no content event
\* carries the marker or a part of a block.
C19_ContentOnlyBeforeMarker ==
  parser = "deepseek_r1"
    => /\ Len(contentOut) <= Len(BeforeFirstBegin)
       /\ contentOut = SubSeq(BeforeFirstBegin, 1, Len(contentOut))

(***************************************************************************)
(* Candidates without calls (SpecExtract)                                  *)
(***************************************************************************)
\* the syntax is there, and no piece of the output is a block that decodes
\* to a call
CandidatesButNoCall ==
  /\ ~NoCandidate
  /\ \A i \in 1..Len(plan) :
       plan[i] \notin
         (IF parser = "deepseek_r1" THEN WellFormed(parser) ELSE Phi4Decodable)
           \cup Unnamed(parser)

\* C20: tag-delimited extract of a text with a begin marker and no span that
\* yields a call returns tools_called = False, no calls, and as content the
\* trimmed text before the first begin marker (None when that is empty);
\* implicit-JSON extract returns the whole text in the same situation.
C20_NoCallKeepsOnlyLeadingText ==
  (result # <<>> /\ ~fault /\ CandidatesButNoCall)
    => result[1] =
         [tools_called |-> FALSE, tool_calls |-> <<>>,
          content |-> IF parser = "deepseek_r1"
                      THEN (IF Strip(BeforeFirstBegin) = <<>> THEN None
                            ELSE Some(Strip(BeforeFirstBegin)))
                      ELSE Some(text)]

\* a malformed span after leading text that trimming changes: only the
\* trimmed leading text comes back
C20_Witness ==
  /\ parser = "deepseek_r1" /\ result # <<>> /\ ~fault
  /\ CandidatesButNoCall
  /\ tool_call_block_re(text) # <<>>
  /\ text[1] = "s"
  /\ result[1].content = Some(<<"x">>)
====
